---- MODULE Spec2Model ----
(***************************************************************************)
(* Fix Season Names: the reconciliation walk of FixSeasonNames.run over a  *)
(* small library tree, with the TMDB client and the ElementTree codec it   *)
(* drives.  Paths are sequences of name codes, documents are records of    *)
(* the parts of an .nfo file the program reads or rewrites, and Python     *)
(* exceptions are results carrying the class that was raised.              *)
(***************************************************************************)
EXTENDS Naturals, Sequences, FiniteSets

VARIABLES
    paths,          \* self._paths: the configured roots, in order
    dry_run,        \* self._dry_run
    fs,             \* the .nfo files on disk: file path -> document
    fsStart,        \* fs as it was when the current run started
    catalog,        \* what TMDB answered per (series, season, language) so far
    run,            \* number of the current invocation of the program
    pc,             \* position of FixSeasonNames.run
    tmdb,           \* self._tmdb
    shows,          \* run's local: the discovered show documents
    show_index,     \* run's loop index (1-based, as enumerate(start=1))
    cur,            \* _fix_show's locals tmdbid and language
    seasons,        \* _fix_show's local: the seasons of the current show
    season_index,   \* position of _fix_show's season loop
    uncaught,       \* class of the exception that left run, "" if none
    log             \* history: what each step did and printed

vars == <<paths, dry_run, fs, fsStart, catalog, run, pc, tmdb, shows,
          show_index, cur, seasons, season_index, uncaught, log>>

-----------------------------------------------------------------------------
(* Bounds of the model *)

MaxRoots == 2
MaxRuns == 2

-----------------------------------------------------------------------------
(* Values *)

None == "<None>"
NoElement == "<no element>"
Absent == "<absent>"
NoExc == "<no exception>"

\* Name codes of path components.  Path.__lt__ compares the lists of parts,
\* component by component; here a component compares as its code.
SeasonNfo == 8
TvShowNfo == 9

Top == <<>>
DirA == <<1>>
DirA1 == <<1, 1>>
DirA2 == <<1, 2>>
DirB == <<2>>
DirB1 == <<2, 1>>
Missing == <<0>>

Dirs == {Top, DirA, DirA1, DirA2, DirB, DirB1}

ShowFile(dir) == Append(dir, TvShowNfo)
SeasonFile(dir) == Append(dir, SeasonNfo)

Parent(file) == SubSeq(file, 1, Len(file) - 1)

-----------------------------------------------------------------------------
(* Exceptions *)

\* The classes each class derives from (itself included), for those raised here.
Bases(exc) ==
    CASE exc = "ParseError" -> {"ParseError", "SyntaxError"}
      [] exc = "PermissionError" -> {"PermissionError", "OSError"}
      [] exc = "HTTPError" -> {"HTTPError", "RequestException", "OSError"}
      [] exc = "Timeout" -> {"Timeout", "RequestException", "OSError"}
      [] OTHER -> {exc}

Catches(classes, exc) == Bases(exc) \cap classes # {}

Ok(value) == [exc |-> NoExc, value |-> value]
Raise(exc) == [exc |-> exc, value |-> None]

-----------------------------------------------------------------------------
(* Discovery *)

\* Path(path).is_dir(): false for a file and for a path that does not exist.
is_dir(path) == path \in Dirs

IsPrefix(p, q) == Len(p) <= Len(q) /\ SubSeq(q, 1, Len(p)) = p

\* Path(path).rglob(name): every file of that name at or below path.
rglob(files, path, name) ==
    {f \in files : f[Len(f)] = name /\ IsPrefix(path, Parent(f))}

PathLess(p, q) ==
    \E i \in 1..(Len(p) + 1) :
        /\ i <= Len(q)
        /\ SubSeq(p, 1, i - 1) = SubSeq(q, 1, i - 1)
        /\ (i > Len(p) \/ p[i] < q[i])

RECURSIVE sorted(_)
sorted(S) ==
    IF S = {} THEN <<>>
    ELSE LET m == CHOOSE x \in S : \A y \in S \ {x} : PathLess(x, y)
         IN  <<m>> \o sorted(S \ {m})

\* The loop shared by _find_tv_shows and _find_seasons: the first root that
\* is no directory raises, and what was found so far is lost.
RECURSIVE FindFrom(_, _, _, _)
FindFrom(files, roots, name, found) ==
    IF roots = <<>> THEN Ok(found)
    ELSE IF ~is_dir(Head(roots)) THEN Raise("OSError")
    ELSE FindFrom(files, Tail(roots), name,
                  found \o sorted(rglob(files, Head(roots), name)))

\* A faulty discovery: a root that is no directory is passed over and the
\* shows of the other roots are returned.
RECURSIVE FindSkippingBadRoots(_, _, _, _)
FindSkippingBadRoots(files, roots, name, found) ==
    IF roots = <<>> THEN Ok(found)
    ELSE IF ~is_dir(Head(roots))
         THEN FindSkippingBadRoots(files, Tail(roots), name, found)
    ELSE FindSkippingBadRoots(files, Tail(roots), name,
                  found \o sorted(rglob(files, Head(roots), name)))

_find_tv_shows_partial(files, roots) ==
    FindSkippingBadRoots(files, roots, TvShowNfo, <<>>)

_find_tv_shows(files, roots) == FindFrom(files, roots, TvShowNfo, <<>>)

_find_seasons(files, roots) == FindFrom(files, roots, SeasonNfo, <<>>)

-----------------------------------------------------------------------------
(* Metadata codec: xml.etree.ElementTree on an .nfo file *)

\* A file on disk.  state: whether it can be opened and is well-formed XML;
\* bom, prolog, comment: whether the bytes start with a byte-order mark, carry
\* an XML declaration, hold a comment; each field: Absent, or the raw text
\* between its tags ("" for an empty element).
Document(state, writable, bom, prolog, comment, tag, title, year, tmdbid, language, seasonnumber, plot) ==
    [state |-> state, writable |-> writable, bom |-> bom, prolog |-> prolog,
     comment |-> comment, tag |-> tag, title |-> title, year |-> year,
     tmdbid |-> tmdbid, language |-> language,
     seasonnumber |-> seasonnumber, plot |-> plot]

\* The text of a parsed element: an empty element has text None.
ElementText(raw) ==
    IF raw = Absent THEN NoElement ELSE IF raw = "" THEN None ELSE raw

\* ET.parse(path).getroot(): the tag and the child elements; the byte-order
\* mark, the declaration and comments are not part of the tree.
ET_parse(doc) ==
    IF doc.state = "unreadable" THEN Raise("PermissionError")
    ELSE IF doc.state = "malformed" THEN Raise("ParseError")
    ELSE Ok([tag |-> doc.tag,
             title |-> ElementText(doc.title),
             year |-> ElementText(doc.year),
             tmdbid |-> ElementText(doc.tmdbid),
             language |-> ElementText(doc.language),
             seasonnumber |-> ElementText(doc.seasonnumber),
             plot |-> ElementText(doc.plot)])

_get_xml_element_text(node, path) ==
    LET element == node[path]
    IN  IF element = NoElement THEN None
        ELSE IF element = "" THEN None ELSE element

_set_xml_element_text(node, path, text) ==
    IF node[path] = NoElement THEN Raise("KeyError")
    ELSE Ok([node EXCEPT ![path] = text])

\* ElementTree.write: an element whose text is None or "" is written as an
\* empty element, any other text between its tags.
RawText(text) ==
    IF text = NoElement THEN Absent
    ELSE IF text = None \/ text = "" THEN "" ELSE text

\* The file after open(season, "w"), the fixed header and season_tree.write.
WriteBack(doc, tree) ==
    IF ~doc.writable THEN Raise("PermissionError")
    ELSE Ok(Document("ok", TRUE, TRUE, TRUE, FALSE, tree.tag,
                     RawText(tree.title), RawText(tree.year),
                     RawText(tree.tmdbid), RawText(tree.language),
                     RawText(tree.seasonnumber), RawText(tree.plot)))

\* int(text) on the texts that occur.
int(text) ==
    CASE text = None -> Raise("TypeError")
      [] text = "1" -> Ok(1)
      [] text = "01" -> Ok(1)
      [] text = "2" -> Ok(2)
      [] text = "100" -> Ok(100)
      [] text = "200" -> Ok(200)
      [] OTHER -> Raise("ValueError")

-----------------------------------------------------------------------------
(* Catalog client: tmdb.py *)

\* What the remote side does with one GET: status is "ok", "http_error" (a
\* 4xx/5xx answer) or "timeout"; success and name are the JSON body's fields.
Response(status, success, name) ==
    [status |-> status, success |-> success, name |-> name]

_query(response) ==
    IF response.status = "timeout" THEN Raise("Timeout")
    ELSE IF response.status = "http_error" THEN Raise("HTTPError")
    ELSE Ok(response)

AuthHandler == {"HTTPError", "RuntimeError"}

\* A faulty check: the body of the answer is not looked at.
_try_auth_unchecked(response) ==
    LET r == _query(response)
    IN  IF r.exc = NoExc THEN Ok(None)
        ELSE IF Catches(AuthHandler, r.exc) THEN Raise("RuntimeError")
        ELSE r

_try_auth(response) ==
    LET r == _query(response)
        checked == IF r.exc # NoExc THEN r
                   ELSE IF r.value.success = Absent THEN Raise("RuntimeError")
                   ELSE IF r.value.success # "true" THEN Raise("RuntimeError")
                   ELSE Ok(None)
    IN  IF checked.exc = NoExc THEN checked
        ELSE IF Catches(AuthHandler, checked.exc) THEN Raise("RuntimeError")
        ELSE checked

\* TMDB(bearer): the client, or the exception _try_auth raised.
TMDB(response) ==
    LET r == _try_auth(response)
    IN  IF r.exc = NoExc THEN Ok("TMDB") ELSE r

get_tv_series_season(series_id, season_number, language, response) ==
    LET r == _query(response)
    IN  IF r.exc = NoExc THEN r
        ELSE IF Catches({"HTTPError"}, r.exc) THEN Raise("RuntimeError")
        ELSE r

-----------------------------------------------------------------------------
(* Reconciler: fix_season_names.py *)

SeasonResult(exc, outcome, looked, wrote, old, new, number, after) ==
    [exc |-> exc, outcome |-> outcome, looked |-> looked, wrote |-> wrote,
     old |-> old, new |-> new, number |-> number, after |-> after]

SeasonRootTag == "season"

TitleIsCorrect(old_title, new_title) == old_title = new_title

\* _fix_season on the file's document, given what the catalog answers when it
\* is asked; skip_write is the value tested before the write-back.
fix_season_body(show_id, language, doc, response, skip_write) ==
    LET parsed == ET_parse(doc)
        season_root == parsed.value
        old_title == _get_xml_element_text(season_root, "title")
        season_number == _get_xml_element_text(season_root, "seasonnumber")
        number == int(season_number)
        season_details ==
            get_tv_series_season(show_id, number.value, language, response)
        new_title == season_details.value.name
        changed == _set_xml_element_text(season_root, "title", new_title)
        written == WriteBack(doc, changed.value)
    IN  IF parsed.exc # NoExc
        THEN SeasonResult(parsed.exc, "", FALSE, FALSE, None, None, 0, doc)
        ELSE IF season_root.tag # SeasonRootTag
        THEN SeasonResult("AttributeError", "", FALSE, FALSE, None, None, 0, doc)
        ELSE IF old_title = None \/ season_number = None
        THEN SeasonResult("KeyError", "", FALSE, FALSE, old_title, None, 0, doc)
        ELSE IF number.exc # NoExc
        THEN SeasonResult(number.exc, "", FALSE, FALSE, old_title, None, 0, doc)
        ELSE IF season_details.exc # NoExc
        THEN SeasonResult(season_details.exc, "", TRUE, FALSE, old_title, None,
                          number.value, doc)
        ELSE IF new_title = Absent
        THEN SeasonResult("KeyError", "", TRUE, FALSE, old_title, None,
                          number.value, doc)
        ELSE IF TitleIsCorrect(old_title, new_title)
        THEN SeasonResult(NoExc, "correct", TRUE, FALSE, old_title, new_title,
                          number.value, doc)
        ELSE IF skip_write
        THEN SeasonResult(NoExc, "dry_run", TRUE, FALSE, old_title, new_title,
                          number.value, doc)
        ELSE IF changed.exc # NoExc
        THEN SeasonResult(changed.exc, "", TRUE, FALSE, old_title, new_title,
                          number.value, doc)
        ELSE IF written.exc # NoExc
        THEN SeasonResult(written.exc, "", TRUE, FALSE, old_title, new_title,
                          number.value, doc)
        ELSE SeasonResult(NoExc, "fixed", TRUE, TRUE, old_title, new_title,
                          number.value, written.value)

\* A faulty _fix_season: the dry-run flag is not tested before the write.
_fix_season_ignoring_dry_run(show_id, language, doc, response, dry) ==
    fix_season_body(show_id, language, doc, response, FALSE)

_fix_season(show_id, language, doc, response, dry) ==
    fix_season_body(show_id, language, doc, response, dry)

\* The root tag spec.md gives for a show document.
ShowRootTag_in_spec == "show"

\* The root tag _fix_show compares with.
ShowRootTag == "tvshow"

DefaultLanguage == "en"

\* A faulty test: a show without catalog id is let through.
MissingShowField_ignoring_tmdbid(title, year, tmdbid) ==
    title = None \/ year = None

MissingShowField(title, year, tmdbid) ==
    title = None \/ year = None \/ tmdbid = None

ShowResult(exc, title, year, tmdbid, language, found) ==
    [exc |-> exc, title |-> title, year |-> year, tmdbid |-> tmdbid,
     language |-> language, seasons |-> found]

\* _fix_show up to its season loop: the show's fields and its seasons.
_fix_show(files, show, doc) ==
    LET parsed == ET_parse(doc)
        show_root == parsed.value
        title == _get_xml_element_text(show_root, "title")
        year == _get_xml_element_text(show_root, "year")
        tmdbid == _get_xml_element_text(show_root, "tmdbid")
        read == _get_xml_element_text(show_root, "language")
        language == IF read = None THEN DefaultLanguage ELSE read
        found == _find_seasons(files, <<Parent(show)>>)
    IN  IF parsed.exc # NoExc
        THEN ShowResult(parsed.exc, None, None, None, None, <<>>)
        ELSE IF show_root.tag # ShowRootTag
        THEN ShowResult("AttributeError", None, None, None, None, <<>>)
        ELSE IF MissingShowField(title, year, tmdbid)
        THEN ShowResult("KeyError", title, year, tmdbid, language, <<>>)
        ELSE IF found.exc # NoExc
        THEN ShowResult(found.exc, title, year, tmdbid, language, <<>>)
        ELSE IF found.value = <<>>
        THEN ShowResult("AttributeError", title, year, tmdbid, language, <<>>)
        ELSE ShowResult(NoExc, title, year, tmdbid, language, found.value)

SeasonLoopHandler ==
    {"OSError", "AttributeError", "KeyError", "ValueError", "RuntimeError"}

ShowLoopHandler == {"OSError", "AttributeError", "KeyError"}

DiscoveryHandler == {"OSError"}

-----------------------------------------------------------------------------
(* History *)

NoFile ==
    Document("nofile", FALSE, FALSE, FALSE, FALSE, "", Absent, Absent, Absent,
             Absent, Absent, Absent)

NoKey == <<0, 0, "">>

NoResponse == Response("", Absent, Absent)

Event(ev, result, exc, file) ==
    [ev |-> ev, run |-> run, result |-> result, exc |-> exc, file |-> file,
     show |-> show_index, looked |-> FALSE, wrote |-> FALSE, old |-> None,
     new |-> None, key |-> NoKey, response |-> NoResponse, rewrite |-> <<>>]

SeasonEvent(result, file, r, key, response, before) ==
    [Event("season", result, r.exc, file) EXCEPT
        !.looked = r.looked, !.wrote = r.wrote, !.old = r.old, !.new = r.new,
        !.key = key, !.response = IF r.looked THEN response ELSE NoResponse,
        !.rewrite = IF r.wrote THEN <<before, r.after>> ELSE <<>>]

Events == {log[i] : i \in 1..Len(log)}

-----------------------------------------------------------------------------
(* Inputs: the library on disk, the configuration, the remote answers *)

ShowDoc(tag, title, year, tmdbid, language) ==
    Document("ok", TRUE, TRUE, TRUE, FALSE, tag, title, year, tmdbid, language,
             Absent, Absent)

GoodShow == ShowDoc("tvshow", "Foo", "2020", "100", Absent)
GermanShow == ShowDoc("tvshow", "Bar", "2021", "200", "de")
SpecShapedShow == ShowDoc("show", "Foo", "2020", "100", Absent)
NoTmdbidShow == ShowDoc("tvshow", "Foo", "2020", Absent, "de")
EmptyTitleShow == ShowDoc("tvshow", "", "2020", "100", Absent)
NoYearShow == ShowDoc("tvshow", "Foo", Absent, "100", Absent)
BadIdShow == ShowDoc("tvshow", "Foo", "2020", "tt100", Absent)
MalformedShow == [GoodShow EXCEPT !.state = "malformed"]
UnreadableShow == [GoodShow EXCEPT !.state = "unreadable"]

ShowDocs ==
    {GoodShow, GermanShow, SpecShapedShow, NoTmdbidShow, EmptyTitleShow,
     NoYearShow, BadIdShow, MalformedShow, UnreadableShow}

SeasonDoc(bom, prolog, comment, tag, title, seasonnumber) ==
    Document("ok", TRUE, bom, prolog, comment, tag, title, Absent, Absent,
             Absent, seasonnumber, "Plot")

FrenchSeason == SeasonDoc(TRUE, TRUE, FALSE, "season", "Saison 1", "1")
EnglishSeason == SeasonDoc(TRUE, TRUE, FALSE, "season", "Season 1", "2")
PlainSeason == SeasonDoc(FALSE, FALSE, TRUE, "season", "Saison 1", "01")
WrongTagSeason == SeasonDoc(TRUE, TRUE, FALSE, "tvshow", "Saison 1", "1")
NoTitleSeason == SeasonDoc(TRUE, TRUE, FALSE, "season", "", "1")
NoNumberSeason == SeasonDoc(TRUE, TRUE, FALSE, "season", "Saison 1", Absent)
BadNumberSeason == SeasonDoc(TRUE, TRUE, FALSE, "season", "Saison 1", "one")
MalformedSeason == [FrenchSeason EXCEPT !.state = "malformed"]
ReadOnlySeason == [FrenchSeason EXCEPT !.writable = FALSE]

SeasonDocs ==
    {FrenchSeason, EnglishSeason, PlainSeason, WrongTagSeason, NoTitleSeason,
     NoNumberSeason, BadNumberSeason, MalformedSeason, ReadOnlySeason}

\* The library: a show in DirA with season directories DirA1 and DirA2, a
\* show in DirB with season directory DirB1, and possibly a show document
\* inside DirA1 as well.
Layout(a, nested, b, a1, a2, b1) ==
    LET all == [f \in {ShowFile(DirA), ShowFile(DirA1), ShowFile(DirB),
                       SeasonFile(DirA1), SeasonFile(DirA2), SeasonFile(DirB1)}
                  |-> CASE f = ShowFile(DirA) -> a
                        [] f = ShowFile(DirA1) -> nested
                        [] f = ShowFile(DirB) -> b
                        [] f = SeasonFile(DirA1) -> a1
                        [] f = SeasonFile(DirA2) -> a2
                        [] OTHER -> b1]
    IN  [f \in {g \in DOMAIN all : all[g].state # "nofile"} |-> all[f]]

\* Two sibling shows with any show documents, one season each.
ShowLayouts ==
    {Layout(a, NoFile, b, FrenchSeason, NoFile, b1) :
        a \in ShowDocs \cup {NoFile}, b \in ShowDocs \cup {NoFile},
        b1 \in {FrenchSeason, WrongTagSeason}}

\* One good show with any season documents in its two season directories.
SeasonLayouts ==
    {Layout(GoodShow, NoFile, NoFile, a1, a2, NoFile) :
        a1 \in SeasonDocs \cup {NoFile}, a2 \in SeasonDocs \cup {NoFile}}

\* A show document inside a season directory of another show.
NestedLayouts ==
    {Layout(GoodShow, nested, NoFile, a1, NoFile, NoFile) :
        nested \in {GermanShow, NoTmdbidShow},
        a1 \in {FrenchSeason, EnglishSeason}}

Layouts == ShowLayouts \cup SeasonLayouts \cup NestedLayouts

\* What may be given as a root: the library, a show's directory, a path that
\* does not exist, a path that is a file.
Roots == {Top, DirA, Missing, ShowFile(DirB)}

RootLists == UNION {[1..n -> Roots] : n \in 1..MaxRoots}

\* What the authentication endpoint may answer.
AuthResponses ==
    {Response("ok", "true", Absent), Response("ok", "false", Absent),
     Response("ok", Absent, Absent), Response("http_error", Absent, Absent),
     Response("timeout", Absent, Absent)}

\* What the season endpoint may answer: a name, an empty name, a null name,
\* a body without name, an HTTP error, no answer in time.
SeasonResponses ==
    {Response("ok", Absent, "Season 1"), Response("ok", Absent, ""),
     Response("ok", Absent, None), Response("ok", Absent, Absent),
     Response("http_error", Absent, Absent),
     Response("timeout", Absent, Absent)}

-----------------------------------------------------------------------------
(* The program *)

NoShow == [tmdbid |-> None, language |-> None]

\* FixSeasonNames(args), before run is called.
Init ==
    /\ paths \in RootLists
    /\ dry_run \in BOOLEAN
    /\ fs \in Layouts
    /\ fsStart = fs
    /\ catalog = << >>
    /\ run = 1
    /\ pc = "start"
    /\ tmdb = None
    /\ shows = <<>>
    /\ show_index = 0
    /\ cur = NoShow
    /\ seasons = <<>>
    /\ season_index = 0
    /\ uncaught = ""
    /\ log = <<>>

\* run, lines 152-162: discovery of the shows.
Discover ==
    /\ pc = "start"
    /\ LET found == _find_tv_shows(DOMAIN fs, paths)
       IN  IF found.exc # NoExc
           THEN IF Catches(DiscoveryHandler, found.exc)
                THEN /\ pc' = "done"
                     /\ log' = Append(log, Event("discovery", "error", found.exc, <<>>))
                     /\ UNCHANGED <<shows, uncaught>>
                ELSE /\ pc' = "crashed"
                     /\ uncaught' = found.exc
                     /\ log' = Append(log, Event("discovery", "uncaught", found.exc, <<>>))
                     /\ UNCHANGED shows
           ELSE IF found.value = <<>>
           THEN /\ pc' = "done"
                /\ log' = Append(log, Event("discovery", "no_shows", NoExc, <<>>))
                /\ UNCHANGED <<shows, uncaught>>
           ELSE /\ pc' = "auth"
                /\ shows' = found.value
                /\ log' = Append(log, Event("discovery", "found", NoExc, <<>>))
                /\ UNCHANGED uncaught
    /\ UNCHANGED <<paths, dry_run, fs, fsStart, catalog, run, tmdb, show_index,
                   cur, seasons, season_index>>

\* run, line 164: the client is built, which authenticates.
Authenticate ==
    /\ pc = "auth"
    /\ \E response \in AuthResponses :
         LET client == TMDB(response)
         IN  IF client.exc # NoExc
             THEN /\ pc' = "crashed"
                  /\ uncaught' = client.exc
                  /\ log' = Append(log,
                        [Event("auth", "uncaught", client.exc, <<>>)
                            EXCEPT !.response = response])
                  /\ UNCHANGED <<tmdb, show_index>>
             ELSE /\ pc' = "shows"
                  /\ tmdb' = client.value
                  /\ show_index' = 1
                  /\ log' = Append(log, [Event("auth", "ok", NoExc, <<>>)
                                             EXCEPT !.response = response])
                  /\ UNCHANGED uncaught
    /\ UNCHANGED <<paths, dry_run, fs, fsStart, catalog, run, shows, cur,
                   seasons, season_index>>

\* The show loop moves on to the next show, or run returns.
NextShow ==
    /\ show_index' = show_index + 1
    /\ pc' = IF show_index < Len(shows) THEN "shows" ELSE "done"
    /\ seasons' = <<>>
    /\ season_index' = 0
    /\ cur' = NoShow

\* One turn of run's show loop up to _fix_show's season loop.
FixShow ==
    /\ pc = "shows"
    /\ LET show == shows[show_index]
           r == _fix_show(DOMAIN fs, show, fs[show])
       IN  IF r.exc = NoExc
           THEN /\ pc' = "seasons"
                /\ cur' = [tmdbid |-> r.tmdbid, language |-> r.language]
                /\ seasons' = r.seasons
                /\ season_index' = 1
                /\ log' = Append(log, Event("show", "ok", NoExc, show))
                /\ UNCHANGED <<show_index, uncaught>>
           ELSE IF Catches(ShowLoopHandler, r.exc)
           THEN /\ NextShow
                /\ log' = Append(log, Event("show", "skipped", r.exc, show))
                /\ UNCHANGED uncaught
           ELSE /\ pc' = "crashed"
                /\ uncaught' = r.exc
                /\ log' = Append(log, Event("show", "uncaught", r.exc, show))
                /\ UNCHANGED <<show_index, cur, seasons, season_index>>
    /\ UNCHANGED <<paths, dry_run, fs, fsStart, catalog, run, tmdb, shows>>

\* One turn of _fix_show's season loop: _fix_season on the next season.  The
\* catalog answers a key it was asked before as it did then, and any way
\* otherwise.  An exception the season loop does not catch goes to the show
\* loop, and from there out of run.
FixSeason ==
    /\ pc = "seasons"
    /\ \E response \in SeasonResponses :
         LET season == seasons[season_index]
             show_id == int(cur.tmdbid)
             r == IF show_id.exc # NoExc
                  THEN SeasonResult(show_id.exc, "", FALSE, FALSE, None, None,
                                    0, fs[season])
                  ELSE _fix_season(show_id.value, cur.language, fs[season],
                                   response, dry_run)
             key == IF r.looked
                    THEN <<show_id.value, r.number, cur.language>> ELSE NoKey
             result == IF r.exc = NoExc THEN r.outcome
                       ELSE IF Catches(SeasonLoopHandler, r.exc) THEN "skipped"
                       ELSE IF Catches(ShowLoopHandler, r.exc) THEN "show_skipped"
                       ELSE "uncaught"
         IN  /\ r.looked /\ key \in DOMAIN catalog => response = catalog[key]
             /\ catalog' = IF r.looked
                           THEN [k \in DOMAIN catalog \cup {key} |->
                                    IF k = key THEN response ELSE catalog[k]]
                           ELSE catalog
             /\ fs' = [fs EXCEPT ![season] = r.after]
             /\ log' = Append(log, SeasonEvent(result, season, r, key, response,
                                              fs[season]))
             /\ IF result = "uncaught"
                THEN /\ pc' = "crashed"
                     /\ uncaught' = r.exc
                     /\ UNCHANGED <<show_index, cur, seasons, season_index>>
                ELSE IF result = "show_skipped" \/ season_index = Len(seasons)
                THEN NextShow /\ UNCHANGED uncaught
                ELSE /\ season_index' = season_index + 1
                     /\ UNCHANGED <<pc, show_index, cur, seasons, uncaught>>
    /\ UNCHANGED <<paths, dry_run, fsStart, run, tmdb, shows>>

\* The operator starts the program again on the same configuration.
Rerun ==
    /\ pc \in {"done", "crashed"}
    /\ run < MaxRuns
    /\ run' = run + 1
    /\ pc' = "start"
    /\ fsStart' = fs
    /\ tmdb' = None
    /\ shows' = <<>>
    /\ show_index' = 0
    /\ cur' = NoShow
    /\ seasons' = <<>>
    /\ season_index' = 0
    /\ uncaught' = ""
    /\ UNCHANGED <<paths, dry_run, fs, catalog, log>>

\* One invocation of the program.
Next == Discover \/ Authenticate \/ FixShow \/ FixSeason

Spec == Init /\ [][Next]_vars

\* Invocations one after the other, on a single root.
InitRerun == Init /\ Len(paths) = 1

NextRerun == Discover \/ Authenticate \/ FixShow \/ FixSeason \/ Rerun

SpecRerun == InitRerun /\ [][NextRerun]_vars

-----------------------------------------------------------------------------
(* Properties *)

ShowEvents == {e \in Events : e.ev = "show"}
SeasonEvents == {e \in Events : e.ev = "season"}
AuthEvents == {e \in Events : e.ev = "auth"}

\* The show loop went past the show of event e.
LoopWentPast(e) == e.run < run \/ pc = "done" \/ show_index > e.show

\* The text of a field of a document that parses, None when it has none.
FieldOf(doc, field) == _get_xml_element_text(ET_parse(doc).value, field)

Parses(doc) == ET_parse(doc).exc = NoExc

\* C1: every failure of a show in steps 1-3 (parsing, root tag, fields,
\* discovery of its seasons) is caught at the show loop and reported, and the
\* loop goes on to the next show: the run is never aborted by it.
C1_ShowFailureNeverAborts ==
    \A e \in ShowEvents :
        e.exc # NoExc => e.result = "skipped" /\ LoopWentPast(e)

\* C2: every failure of a season (parsing, root tag, missing title or number,
\* the lookup, the write-back) is caught in the season loop and reported, and
\* the later seasons and shows are still processed.
C2_SeasonFailureNeverAborts ==
    \A e \in SeasonEvents :
        e.exc # NoExc =>
            /\ e.result = "skipped"
            /\ ~(pc = "crashed" /\ e.run = run /\ e.show = show_index)

\* The conditions under which a season file may be written, on the document
\* as it was and the answer of the catalog.
WriteIsDue(before, response) ==
    /\ ~dry_run
    /\ Parses(before)
    /\ FieldOf(before, "title") # None
    /\ FieldOf(before, "seasonnumber") # None
    /\ response.status = "ok"
    /\ response.name # FieldOf(before, "title")

\* C3: a season file is written only if dry-run is off, the document parsed
\* with a title and a season number, the lookup succeeded and the catalog's
\* title differs from the one on disk; a file for which that never happened in
\* the run has the content it had before the run.
C3_WriteOnlyWhenDue ==
    /\ \A e \in SeasonEvents :
          e.wrote => e.looked /\ WriteIsDue(e.rewrite[1], catalog[e.key])
    /\ \A f \in DOMAIN fs :
          fs[f] # fsStart[f] =>
              \E e \in SeasonEvents : e.run = run /\ e.file = f /\ e.wrote
    /\ DOMAIN fs = DOMAIN fsStart

C3_Witness ==
    /\ pc = "done"
    /\ \E e \in SeasonEvents : e.wrote /\ fs[e.file] # fsStart[e.file]
    /\ \E e \in SeasonEvents :
          e.result \in {"correct", "skipped"} /\ fs[e.file] = fsStart[e.file]

Fields == {"title", "year", "tmdbid", "language", "seasonnumber", "plot"}

\* C4: after a write, the file parses to a season document whose title is the
\* catalog's title, whose season number and other fields are those it had, and
\* which has a byte-order mark, a prolog and its comments exactly if it had
\* them before.
C4_RewriteKeepsTheRest ==
    \A e \in SeasonEvents :
        e.wrote =>
            LET before == e.rewrite[1]
                after == e.rewrite[2]
            IN  /\ Parses(after)
                /\ after.tag = "season"
                /\ FieldOf(after, "title") = catalog[e.key].name
                /\ \A f \in Fields \ {"title"} : after[f] = before[f]
                /\ after.bom = before.bom
                /\ after.prolog = before.prolog
                /\ after.comment = before.comment

\* Number of times the season file was handed to _fix_season in a run.
TimesProcessed(file, r) ==
    Cardinality({i \in 1..Len(log) :
        log[i].ev = "season" /\ log[i].file = file /\ log[i].run = r})

\* C5: a season file that a run rewrote is reported as already correct by the
\* run that follows on the same roots with the same catalog answers, and is
\* not written again.
C5_RerunFindsTitleCorrect ==
    \A e1 \in SeasonEvents : \A e2 \in SeasonEvents :
        /\ e1.wrote
        /\ TimesProcessed(e1.file, e1.run) = 1
        /\ e2.file = e1.file
        /\ e2.run = e1.run + 1
        => e2.result = "correct" /\ ~e2.wrote

\* The authentication check fails on this answer of the remote side.
AuthFails(response) ==
    \/ response.status = "http_error"
    \/ response.status = "ok" /\ response.success # "true"

\* C6: when the authentication check fails (an HTTP error, or no truthy
\* success field), the error leaves run as an authentication error and the
\* run is over: no client exists, no show was parsed, no season was looked up
\* and no file was written.  A request that times out ends the run the same
\* way.
C6_AuthFailureStopsRun ==
    \A e \in AuthEvents :
        AuthFails(e.response) \/ e.response.status = "timeout" =>
            /\ pc = "crashed"
            /\ AuthFails(e.response) => uncaught = "RuntimeError"
            /\ tmdb = None
            /\ ShowEvents = {}
            /\ SeasonEvents = {}
            /\ fs = fsStart

C6_Witness ==
    \E e \in AuthEvents :
        /\ e.response.status = "ok"
        /\ e.response.success = "false"
        /\ pc = "crashed"

HasBadRoot == \E i \in 1..Len(paths) : ~is_dir(paths[i])

\* C7: when a root at any position is not an existing directory, discovery
\* yields nothing and run stops after one reported error: no show is
\* processed, no authentication is attempted and no file is written.
C7_BadRootStopsRun ==
    HasBadRoot /\ pc # "start" =>
        /\ pc = "done"
        /\ Len(log) = 1
        /\ log[1].ev = "discovery"
        /\ log[1].result = "error"
        /\ shows = <<>>
        /\ tmdb = None
        /\ fs = fsStart

C7_Witness ==
    /\ pc = "done"
    /\ Len(paths) = 2
    /\ is_dir(paths[1])
    /\ rglob(DOMAIN fs, paths[1], TvShowNfo) # {}
    /\ ~is_dir(paths[2])

\* The texts a show must have.
HasShowFields(doc) ==
    /\ FieldOf(doc, "title") # None
    /\ FieldOf(doc, "year") # None
    /\ FieldOf(doc, "tmdbid") # None

\* The show of event e has a catalog id that int() accepts.
ShowIdIsInt(e) == int(FieldOf(fs[shows[e.show]], "tmdbid")).exc = NoExc

\* A show document is accepted exactly when its root tag is showTag, a
\* season document exactly when its root tag is "season".
RootTagRule(showTag) ==
    /\ \A e \in ShowEvents :
          Parses(fs[e.file]) =>
              /\ fs[e.file].tag = showTag /\ HasShowFields(fs[e.file])
                 /\ rglob(DOMAIN fs, Parent(e.file), SeasonNfo) # {}
                     => e.result = "ok"
              /\ fs[e.file].tag # showTag
                     => e.result = "skipped" /\ e.exc = "AttributeError"
    /\ \A e \in SeasonEvents :
          Parses(fs[e.file]) /\ ShowIdIsInt(e) =>
              (fs[e.file].tag = "season" <=> e.exc # "AttributeError")

\* C8 as stated: the root tag of a show document is "show".
C8_ShowTagIsShow == RootTagRule("show")

\* C8 as amended: the root tag of a show document is "tvshow"; a show
\* document with any other root tag, "show" included, is skipped.
C8_ShowTagIsTvshow == RootTagRule("tvshow")

C8_Witness ==
    /\ \E e \in ShowEvents : fs[e.file].tag = "tvshow" /\ e.result = "ok"
    /\ \E e \in ShowEvents : fs[e.file].tag = "show" /\ e.result = "skipped"
    /\ \E e \in SeasonEvents :
          fs[e.file].tag # "season" /\ e.exc = "AttributeError"

C10_SeasonProcessedOnce ==
    \A f \in DOMAIN fs :
        Cardinality({i \in 1..Len(log) :
            log[i].ev = "season" /\ log[i].file = f /\ log[i].looked}) <= 1

====
